---- MODULE Spec2Model ----
(***************************************************************************)
(* Model of the scan routes registered by registerScansRoutes              *)
(* (POST /api/scans/upload, GET /api/scans, GET /api/scans/:id) together   *)
(* with the scans table they read and write and the three adapters they    *)
(* call (object storage, vision model, relational store).                  *)
(*                                                                         *)
(* Every request is handled by an async handler; each `await` of the       *)
(* handler is one step of the model, so that the handlers of concurrent    *)
(* requests interleave exactly at the points where the code suspends.      *)
(***************************************************************************)
EXTENDS Integers, Sequences, FiniteSets, TLC

(***************************************************************************)
(* Bounds of the model.                                                    *)
(***************************************************************************)
\* Largest number of rows the scans table is allowed to reach.
MaxScans == 2
\* Largest value of the millisecond clock (Date.now(), defaultNow()).
MaxClock == 1

(***************************************************************************)
(* Inputs.                                                                 *)
(***************************************************************************)
\* Request slots: the handlers that may be running at the same time.
Reqs == {"r1", "r2"}
Users == {"alice", "bob"}
\* requireAuth returned no session.
NoSession == "none"
\* limits: { fileSize: 10 * 1024 * 1024 }
FileSizeLimit == 10 * 1024 * 1024
\* request.file() returned undefined.
NoFile == [present |-> FALSE, filename |-> "", size |-> 0, readError |-> FALSE]
\* The file parts a request may carry: one of exactly the limit, one a byte
\* above it, and one whose stream breaks while it is read.
FileParts ==
  { [present |-> TRUE, filename |-> "scan.jpg", size |-> FileSizeLimit, readError |-> FALSE],
    [present |-> TRUE, filename |-> "scan.jpg", size |-> FileSizeLimit + 1, readError |-> FALSE],
    [present |-> TRUE, filename |-> "scan.jpg", size |-> FileSizeLimit, readError |-> TRUE] }
\* The ids GET /api/scans/:id may be asked for (one more than can exist).
ScanIds == 1..(MaxScans + 1)

(***************************************************************************)
(* analysisSchema and the outputs of the model call.                       *)
(***************************************************************************)
Confidences == {"high", "medium", "low"}

\* What the gateway model may produce before generateObject validates it.
RawOutputs ==
  { [species |-> "Urtica dioica", commonName |-> "Stinging nettle",
     isSafeToEat |-> TRUE, isSafeToTouch |-> FALSE, confidence |-> "high",
     warnings |-> "Stings bare skin", description |-> "Perennial herb"],
    [species |-> "Amanita phalloides", commonName |-> "Death cap",
     isSafeToEat |-> FALSE, isSafeToTouch |-> TRUE, confidence |-> "low",
     warnings |-> "Deadly if eaten", description |-> "Pale green mushroom"],
    [species |-> "Amanita phalloides", commonName |-> "Death cap",
     isSafeToEat |-> FALSE, isSafeToTouch |-> TRUE, confidence |-> "certain",
     warnings |-> "Deadly if eaten", description |-> "Pale green mushroom"] }

AnalysisFields ==
  {"species", "commonName", "isSafeToEat", "isSafeToTouch", "confidence",
   "warnings", "description"}

\* analysisSchema.parse succeeds on o.
\* The model's output taken as it comes (no validation against the schema).
ConformsToSchema_unchecked(o) == TRUE

ConformsToSchema(o) ==
  /\ DOMAIN o = AnalysisFields
  /\ o.isSafeToEat \in BOOLEAN
  /\ o.isSafeToTouch \in BOOLEAN
  /\ o.confidence \in Confidences

NoAnalysis == [species |-> ""]

(***************************************************************************)
(* Values of the handlers' locals before they are assigned.                *)
(***************************************************************************)
NoKey == <<>>
NoUrl == [key |-> <<>>, issuedAt |-> -1]
NoScan == [id |-> 0, userId |-> "", imageKey |-> <<>>]
NoResponse == [status |-> 0]

Idle ==
  [route |-> "none", pc |-> "idle", session |-> NoSession, data |-> NoFile,
   key |-> NoKey, uploadedKey |-> NoKey, url |-> NoUrl, analysis |-> NoAnalysis,
   id |-> 0, scan |-> NoScan, calls |-> <<>>, response |-> NoResponse]

(***************************************************************************)
(* The HomeScreen of the client.                                           *)
(***************************************************************************)
\* The uris the image picker and the camera may return.
Images == {"photo1.jpg", "photo2.jpg"}

\* useState<string | null>(null), useState<ScanResult | null>(null)
NoImage == "null"
NoResult == [scanId |-> 0]

\* No call of analyzePlant is waiting for its fetch.
NoPending == [slot |-> "none", image |-> NoImage, user |-> NoSession]

\* The screen as it is mounted; pending is the call of analyzePlant that is
\* waiting for its fetch, with the selectedImage and the user its closure has
\* captured.
HomeInit ==
  [selectedImage |-> NoImage, isAnalyzing |-> FALSE, scanResult |-> NoResult,
   pending |-> NoPending]

(***************************************************************************)
(* The ProfileScreen of the client.                                        *)
(***************************************************************************)
\* The screen as it is mounted with nobody signed in: user is useAuth().user,
\* pending the calls of loadScanHistory that are waiting for their fetch, and
\* signingOut says that the Sign Out handler is waiting for signOut().
ProfileInit ==
  [user |-> NoSession, scanHistory |-> <<>>, isLoading |-> FALSE,
   pending |-> {}, signingOut |-> FALSE]

VARIABLES
  db,       \* the scans table: the rows in insertion order
  storage,  \* the object store: key -> length of the stored bytes
  clock,    \* the latest reading of the clock (Date.now(), defaultNow())
  req,      \* per request slot: the handler's locals, calls and response
  home,     \* the HomeScreen of the client: its state and its request in flight
  profile   \* the ProfileScreen of the client: its state and its loads in flight

vars == <<db, storage, clock, req, home, profile>>

(***************************************************************************)
(* Pure helpers of the handlers.                                           *)
(***************************************************************************)
\* `scans/${session.user.id}/${Date.now()}-${data.filename}`
Key(user, now, filename) == <<"scans", user, now, filename>>

\* app.storage.getSignedUrl(key): a time-limited link to key, issued at now.
SignedUrl(key, now) == [key |-> key, issuedAt |-> now]

\* Variant: the handler goes on without a session.
Rejected_never(session) == FALSE

\* if (!session) return;
Rejected(session) == session = NoSession

\* Variant: the handler does not test whether a file part came.
NoFileProvided_never(data) == FALSE

\* if (!data)
NoFileProvided(data) == ~data.present

\* Variant: the limit is set one byte too high.
FileTooLarge_offByOne(data) == data.size > FileSizeLimit + 1

\* data.toBuffer() with limits.fileSize: the part is longer than the limit.
FileTooLarge(data) == data.size > FileSizeLimit

\* data.toBuffer() rejects: the part overran the limit or its stream broke.
ToBufferThrows(data) == FileTooLarge(data) \/ data.readError

\* One awaited call of a handler, as the adapter saw it.
Call(op, arg, ok, ret) == [op |-> op, arg |-> arg, ok |-> ok, ret |-> ret]

\* The reply the auth collaborator sends itself when it finds no session.
AuthReply == [status |-> 401, body |-> [error |-> "Unauthorized"]]

\* reply.status(code).send({ error: message })
ErrorReply(code, message) == [status |-> code, body |-> [error |-> message]]

\* A handler that throws: the server answers 500 with the thrown error.
ThrownReply(err) == [status |-> 500, body |-> [thrown |-> err]]

\* return value of a handler: 200 with the value as body.
OkReply(body) == [status |-> 200, body |-> body]

\* The handler returns (or replies) and is finished.
Finished(q, response) == [q EXCEPT !.pc = "done", !.response = response]

\* What a handler would store if it replaced a failed analysis by defaults.
Placeholder ==
  [species |-> "Unknown", commonName |-> "Unknown", isSafeToEat |-> FALSE,
   isSafeToTouch |-> FALSE, confidence |-> "low", warnings |-> "",
   description |-> "No description available"]

\* Variant: a failed analysis is replaced by defaults and the handler goes on.
Caught_fallback(q, err) ==
  IF q.pc = "analyze"
  THEN [q EXCEPT !.pc = "insert", !.analysis = Placeholder]
  ELSE Finished(q, ThrownReply(err))

\* Variant: the catch block throws an error of its own.
Caught_generic(q, err) == Finished(q, ThrownReply("InternalServerError"))

\* catch (error) { app.logger.error(...); throw error; }
Caught(q, err) == Finished(q, ThrownReply(err))

\* The handler's record after one more awaited call.
Called(q, op, arg, ok, ret) == [q EXCEPT !.calls = Append(@, Call(op, arg, ok, ret))]

\* An awaited call rejects with err inside the handler's try block.
Thrown(q, op, arg, err) == Caught(Called(q, op, arg, FALSE, err), err)

\* The values a reading of the clock may return: time may have passed since
\* the last reading.
Nows == {t \in {clock, clock + 1} : t <= MaxClock}

\* Upload requests past authentication that have not finished.
UploadsInFlight == {r \in Reqs : req[r].route = "upload" /\ req[r].pc \notin {"idle", "done"}}

(***************************************************************************)
(* Init                                                                    *)
(***************************************************************************)
Init ==
  /\ db = <<>>
  /\ storage = [k \in {} |-> 0]
  /\ clock = 0
  /\ req = [r \in Reqs |-> Idle]
  /\ home = HomeInit
  /\ profile = ProfileInit

(***************************************************************************)
(* POST /api/scans/upload                                                  *)
(***************************************************************************)
\* const session = await requireAuth(request, reply); if (!session) return;
UploadAuthed(q0, session) ==
  LET q == [q0 EXCEPT !.route = "upload", !.session = session] IN
  IF Rejected(session)
  THEN Finished(q, AuthReply)
  ELSE [q EXCEPT !.pc = "file"]

\* A request arrives at the route and passes through the session check.
UploadAuth(r) ==
  /\ req[r].pc = "idle"
  /\ Len(db) + Cardinality(UploadsInFlight) < MaxScans
  /\ \E session \in Users \cup {NoSession} :
       req' = [req EXCEPT ![r] = UploadAuthed(req[r], session)]
  /\ UNCHANGED <<db, storage, clock>>
  /\ UNCHANGED <<home, profile>>

\* const data = await request.file({ limits }); if (!data) return 400
UploadFile(r) ==
  /\ req[r].pc = "file"
  /\ \E data \in FileParts \cup {NoFile} :
       LET q == Called([req[r] EXCEPT !.data = data], "file", <<>>, TRUE, <<>>) IN
       req' = [req EXCEPT ![r] =
                 IF NoFileProvided(data)
                 THEN Finished(q, ErrorReply(400, "No file provided"))
                 ELSE [q EXCEPT !.pc = "toBuffer"]]
  /\ UNCHANGED <<db, storage, clock>>
  /\ UNCHANGED <<home, profile>>

\* A handler that sends the buffer to the model before it is stored.
UploadToBuffer_analyzeFirst(r) ==
  /\ req[r].pc = "toBuffer"
  /\ LET data == req[r].data
         thrown == ToBufferThrows(data)
         q == Called(req[r], "toBuffer", <<>>, ~thrown, <<>>) IN
     IF thrown
     THEN /\ req' = [req EXCEPT ![r] = Finished(q, ErrorReply(413, "File too large"))]
          /\ UNCHANGED clock
     ELSE \E now \in Nows :
            /\ clock' = now
            /\ req' = [req EXCEPT ![r] =
                         [q EXCEPT !.pc = "analyze",
                                   !.key = Key(q.session, now, data.filename)]]
  /\ UNCHANGED <<db, storage>>
  /\ UNCHANGED <<home, profile>>

\* buffer = await data.toBuffer()  (catch: 413), then the key is built.
UploadToBuffer(r) ==
  /\ req[r].pc = "toBuffer"
  /\ LET data == req[r].data
         thrown == ToBufferThrows(data)
         q == Called(req[r], "toBuffer", <<>>, ~thrown, <<>>) IN
     IF thrown
     THEN /\ req' = [req EXCEPT ![r] = Finished(q, ErrorReply(413, "File too large"))]
          /\ UNCHANGED clock
     ELSE \E now \in Nows :
            /\ clock' = now
            /\ req' = [req EXCEPT ![r] =
                         [q EXCEPT !.pc = "upload",
                                   !.key = Key(q.session, now, data.filename)]]
  /\ UNCHANGED <<db, storage>>
  /\ UNCHANGED <<home, profile>>

\* const uploadedKey = await app.storage.upload(key, buffer);
\* The adapter stores the bytes under the key it is given (replacing what was
\* there) and returns that key.
UploadStore(r) ==
  /\ req[r].pc = "upload"
  /\ LET q == req[r] IN
     \/ /\ req' = [req EXCEPT ![r] =
                     Thrown(q, "upload", q.key, "StorageUploadError")]
        /\ UNCHANGED storage
     \/ /\ storage' = [k \in DOMAIN storage \cup {q.key} |->
                         IF k = q.key THEN q.data.size ELSE storage[k]]
        /\ req' = [req EXCEPT ![r] =
                     [Called(q, "upload", q.key, TRUE, q.key) EXCEPT
                        !.pc = "sign", !.uploadedKey = q.key]]
  /\ UNCHANGED <<db, clock>>
  /\ UNCHANGED <<home, profile>>

\* const { url } = await app.storage.getSignedUrl(uploadedKey);
UploadSign(r) ==
  /\ req[r].pc = "sign"
  /\ LET q == req[r] IN
     \/ /\ req' = [req EXCEPT ![r] =
                     Thrown(q, "getSignedUrl", q.uploadedKey, "SignedUrlError")]
        /\ UNCHANGED clock
     \/ \E now \in Nows :
          LET url == SignedUrl(q.uploadedKey, now) IN
          /\ clock' = now
          /\ req' = [req EXCEPT ![r] =
                       [Called(q, "getSignedUrl", q.uploadedKey, TRUE, url) EXCEPT
                          !.pc = "analyze", !.url = url]]
  /\ UNCHANGED <<db, storage>>
  /\ UNCHANGED <<home, profile>>

\* A handler that gives up waiting for the model and answers 504 by itself.
UploadAnalyze_timeout(r) ==
  /\ req[r].pc = "analyze"
  /\ LET q == req[r] IN
     \/ req' = [req EXCEPT ![r] = Finished(q, ErrorReply(504, "Analysis timed out"))]
     \/ req' = [req EXCEPT ![r] =
                  Thrown(q, "generateObject", <<>>, "ModelCallError")]
     \/ \E out \in RawOutputs :
          req' = [req EXCEPT ![r] =
                    IF ConformsToSchema(out)
                    THEN [Called(q, "generateObject", <<>>, TRUE, out) EXCEPT
                            !.pc = "insert", !.analysis = out]
                    ELSE Thrown(q, "generateObject", <<>>, "NoObjectGeneratedError")]
  /\ UNCHANGED <<db, storage, clock>>
  /\ UNCHANGED <<home, profile>>

\* const analysisResult = await generateObject({ model, schema, messages });
\* it throws when the call fails and when the output does not parse.
UploadAnalyze(r) ==
  /\ req[r].pc = "analyze"
  /\ LET q == req[r] IN
     \/ req' = [req EXCEPT ![r] =
                  Thrown(q, "generateObject", <<>>, "ModelCallError")]
     \/ \E out \in RawOutputs :
          req' = [req EXCEPT ![r] =
                    IF ConformsToSchema(out)
                    THEN [Called(q, "generateObject", <<>>, TRUE, out) EXCEPT
                            !.pc = "insert", !.analysis = out]
                    ELSE Thrown(q, "generateObject", <<>>, "NoObjectGeneratedError")]
  /\ UNCHANGED <<db, storage, clock>>
  /\ UNCHANGED <<home, profile>>

\* A row filled from a session and an analysis kept in one place for all the
\* requests in flight, instead of in the request's own locals.
NewScan_shared(q, id, now) ==
  LET holder == CHOOSE r \in Reqs : req[r].analysis # NoAnalysis
      h == req[holder] IN
  [id |-> id, userId |-> h.session, imageUrl |-> q.url, imageKey |-> q.uploadedKey,
   species |-> h.analysis.species, commonName |-> h.analysis.commonName,
   isSafeToEat |-> h.analysis.isSafeToEat, isSafeToTouch |-> h.analysis.isSafeToTouch,
   confidence |-> h.analysis.confidence, warnings |-> h.analysis.warnings,
   description |-> h.analysis.description, createdAt |-> now]

\* A row whose two safety columns are filled from each other's field.
NewScan_swapped(q, id, now) ==
  [id |-> id, userId |-> q.session, imageUrl |-> q.url, imageKey |-> q.uploadedKey,
   species |-> q.analysis.species, commonName |-> q.analysis.commonName,
   isSafeToEat |-> q.analysis.isSafeToTouch, isSafeToTouch |-> q.analysis.isSafeToEat,
   confidence |-> q.analysis.confidence, warnings |-> q.analysis.warnings,
   description |-> q.analysis.description, createdAt |-> now]

\* The row of app.db.insert(schema.scans).values({...}).returning()
NewScan(q, id, now) ==
  [id |-> id, userId |-> q.session, imageUrl |-> q.url, imageKey |-> q.uploadedKey,
   species |-> q.analysis.species, commonName |-> q.analysis.commonName,
   isSafeToEat |-> q.analysis.isSafeToEat, isSafeToTouch |-> q.analysis.isSafeToTouch,
   confidence |-> q.analysis.confidence, warnings |-> q.analysis.warnings,
   description |-> q.analysis.description, createdAt |-> now]

\* An insert whose rejection may come after the row was written.
UploadInsert_commitThenThrow(r) ==
  /\ req[r].pc = "insert"
  /\ LET q == req[r] IN
     \E now \in Nows :
       LET scan == NewScan(q, Len(db) + 1, now) IN
       /\ clock' = now
       /\ db' = Append(db, scan)
       /\ \/ req' = [req EXCEPT ![r] =
                       Thrown(q, "insert", <<>>, "DbInsertError")]
          \/ req' = [req EXCEPT ![r] =
                       Finished(Called(q, "insert", <<>>, TRUE, scan.id),
                                OkReply([scanId |-> scan.id, imageUrl |-> q.url,
                                         analysis |-> q.analysis]))]
  /\ UNCHANGED storage
  /\ UNCHANGED <<home, profile>>

\* const [scan] = await app.db.insert(...).returning(); return { scanId, ... }
UploadInsert(r) ==
  /\ req[r].pc = "insert"
  /\ LET q == req[r] IN
     \/ /\ req' = [req EXCEPT ![r] =
                     Thrown(q, "insert", <<>>, "DbInsertError")]
        /\ UNCHANGED <<db, clock>>
     \/ \E now \in Nows :
          LET scan == NewScan(q, Len(db) + 1, now) IN
          /\ clock' = now
          /\ db' = Append(db, scan)
          /\ req' = [req EXCEPT ![r] =
                       Finished(Called(q, "insert", <<>>, TRUE, scan.id),
                                OkReply([scanId |-> scan.id, imageUrl |-> q.url,
                                         analysis |-> q.analysis]))]
  /\ UNCHANGED storage
  /\ UNCHANGED <<home, profile>>

(***************************************************************************)
(* GET /api/scans                                                          *)
(***************************************************************************)
\* where: eq(schema.scans.userId, session.user.id)
WhereUser(row, user) == row.userId = user

\* Variant: the rows are ordered oldest first.
DescCreatedAt_asc(a, b) == a.createdAt <= b.createdAt

\* orderBy: [desc(schema.scans.createdAt)]: a may come before b.
DescCreatedAt(a, b) == a.createdAt >= b.createdAt

\* The rows (by position in the table) the query selects.
Selected(user) == {i \in 1..Len(db) : WhereUser(db[i], user)}

\* The orders in which the database may return the selected rows: every
\* arrangement that respects the ordering (rows with equal createdAt may
\* come in either order).
Arrangements(S) ==
  {p \in [1..Cardinality(S) -> S] :
     /\ \A i, j \in 1..Cardinality(S) : i # j => p[i] # p[j]
     /\ \A i, j \in 1..Cardinality(S) : i < j => DescCreatedAt(db[p[i]], db[p[j]])}

\* app.db.query.scans.findMany({ where, orderBy })
FindMany(user) ==
  {[i \in 1..Cardinality(Selected(user)) |-> db[p[i]]] : p \in Arrangements(Selected(user))}

\* const session = await requireAuth(request, reply); if (!session) return;
ListAuthed(q0, session) ==
  LET q == [q0 EXCEPT !.route = "list", !.session = session] IN
  IF Rejected(session)
  THEN Finished(q, AuthReply)
  ELSE [q EXCEPT !.pc = "findMany"]

\* A request arrives at the route and passes through the session check.
ListAuth(r) ==
  /\ req[r].pc = "idle"
  /\ \E session \in Users \cup {NoSession} :
       req' = [req EXCEPT ![r] = ListAuthed(req[r], session)]
  /\ UNCHANGED <<db, storage, clock>>
  /\ UNCHANGED <<home, profile>>

\* const scans = await app.db.query.scans.findMany(...); return scans;
ListFind(r) ==
  /\ req[r].pc = "findMany"
  /\ LET q == req[r] IN
     \/ req' = [req EXCEPT ![r] =
                  Thrown(q, "findMany", q.session, "DbQueryError")]
     \/ \E scans \in FindMany(q.session) :
          req' = [req EXCEPT ![r] =
                    Finished(Called(q, "findMany", q.session, TRUE, <<>>), OkReply(scans))]
  /\ UNCHANGED <<db, storage, clock>>
  /\ UNCHANGED <<home, profile>>

(***************************************************************************)
(* GET /api/scans/:id                                                      *)
(***************************************************************************)
\* app.db.query.scans.findFirst({ where: eq(schema.scans.id, id) })
FindFirst(id) ==
  IF \E i \in 1..Len(db) : db[i].id = id
  THEN db[CHOOSE i \in 1..Len(db) : db[i].id = id]
  ELSE NoScan

\* Variant: the owner is not compared.
GetDecide_noOwnerCheck(scan, user) == IF scan = NoScan THEN 404 ELSE 200

\* Variant: the owner is compared before the row is tested for absence.
GetDecide_ownerFirst(scan, user) ==
  IF scan.userId # user THEN 403
  ELSE IF scan = NoScan THEN 404
  ELSE 200

\* if (!scan) 404; if (scan.userId !== session.user.id) 403; otherwise go on.
GetDecide(scan, user) ==
  IF scan = NoScan THEN 404
  ELSE IF scan.userId # user THEN 403
  ELSE 200

GetAuth(r) ==
  /\ req[r].pc = "idle"
  /\ \E session \in Users \cup {NoSession} :
       LET q == [req[r] EXCEPT !.route = "get", !.session = session] IN
       req' = [req EXCEPT ![r] =
                 IF Rejected(session)
                 THEN Finished(q, AuthReply)
                 ELSE [q EXCEPT !.pc = "findFirst"]]
  /\ UNCHANGED <<db, storage, clock>>
  /\ UNCHANGED <<home, profile>>

\* const { id } = request.params;
\* const scan = await app.db.query.scans.findFirst(...); the two checks.
GetFind(r) ==
  /\ req[r].pc = "findFirst"
  /\ \E id \in ScanIds :
     LET q == [req[r] EXCEPT !.id = id]
         scan == FindFirst(q.id)
         found == [Called(q, "findFirst", q.id, TRUE, <<>>) EXCEPT !.scan = scan]
         verdict == GetDecide(scan, q.session) IN
     \/ req' = [req EXCEPT ![r] =
                  Thrown(q, "findFirst", q.id, "DbQueryError")]
     \/ req' = [req EXCEPT ![r] =
                  CASE verdict = 404 -> Finished(found, ErrorReply(404, "Scan not found"))
                    [] verdict = 403 -> Finished(found, ErrorReply(403, "Unauthorized"))
                    [] OTHER -> [found EXCEPT !.pc = "getSign"]]
  /\ UNCHANGED <<db, storage, clock>>
  /\ UNCHANGED <<home, profile>>

\* Variant: the fresh URL is also written back to the row.
GetSign_persist(r) ==
  /\ req[r].pc = "getSign"
  /\ LET q == req[r] IN
     \/ /\ req' = [req EXCEPT ![r] =
                     Thrown(q, "getSignedUrl", q.scan.imageKey, "SignedUrlError")]
        /\ UNCHANGED <<db, clock>>
     \/ \E now \in Nows :
          LET url == SignedUrl(q.scan.imageKey, now) IN
          /\ clock' = now
          /\ db' = [i \in 1..Len(db) |->
                      IF db[i].id = q.scan.id THEN [db[i] EXCEPT !.imageUrl = url] ELSE db[i]]
          /\ req' = [req EXCEPT ![r] =
                       Finished(Called(q, "getSignedUrl", q.scan.imageKey, TRUE, url),
                                OkReply([q.scan EXCEPT !.imageUrl = url]))]
  /\ UNCHANGED storage
  /\ UNCHANGED <<home, profile>>

\* const { url } = await app.storage.getSignedUrl(scan.imageKey);
\* return { ...scan, imageUrl: url };
GetSign(r) ==
  /\ req[r].pc = "getSign"
  /\ LET q == req[r] IN
     \/ /\ req' = [req EXCEPT ![r] =
                     Thrown(q, "getSignedUrl", q.scan.imageKey, "SignedUrlError")]
        /\ UNCHANGED clock
     \/ \E now \in Nows :
          LET url == SignedUrl(q.scan.imageKey, now) IN
          /\ clock' = now
          /\ req' = [req EXCEPT ![r] =
                       Finished(Called(q, "getSignedUrl", q.scan.imageKey, TRUE, url),
                                OkReply([q.scan EXCEPT !.imageUrl = url]))]
  /\ UNCHANGED <<db, storage>>
  /\ UNCHANGED <<home, profile>>

(***************************************************************************)
(* The environment.                                                        *)
(***************************************************************************)
\* The reply has been sent; the slot serves the next request.
Finish(r) ==
  /\ req[r].pc = "done"
  /\ req' = [req EXCEPT ![r] = Idle]
  /\ UNCHANGED <<db, storage, clock>>
  /\ UNCHANGED <<home, profile>>

Next ==
  \/ \E r \in Reqs : UploadAuth(r)
  \/ \E r \in Reqs : UploadFile(r)
  \/ \E r \in Reqs : UploadToBuffer(r)
  \/ \E r \in Reqs : UploadStore(r)
  \/ \E r \in Reqs : UploadSign(r)
  \/ \E r \in Reqs : UploadAnalyze(r)
  \/ \E r \in Reqs : UploadInsert(r)
  \/ \E r \in Reqs : ListAuth(r)
  \/ \E r \in Reqs : ListFind(r)
  \/ \E r \in Reqs : GetAuth(r)
  \/ \E r \in Reqs : GetFind(r)
  \/ \E r \in Reqs : GetSign(r)
  \/ \E r \in Reqs : Finish(r)

Spec == Init /\ [][Next]_vars

\* The same handlers when the server is given one request at a time: a request
\* starts only after the reply to the one before it has been sent.
OneAtATime(r) == \A o \in Reqs \ {r} : req[o].pc = "idle"

NextSeq ==
  \/ \E r \in Reqs : OneAtATime(r) /\ UploadAuth(r)
  \/ \E r \in Reqs : UploadFile(r)
  \/ \E r \in Reqs : UploadToBuffer(r)
  \/ \E r \in Reqs : UploadStore(r)
  \/ \E r \in Reqs : UploadSign(r)
  \/ \E r \in Reqs : UploadAnalyze(r)
  \/ \E r \in Reqs : UploadInsert(r)
  \/ \E r \in Reqs : OneAtATime(r) /\ ListAuth(r)
  \/ \E r \in Reqs : ListFind(r)
  \/ \E r \in Reqs : OneAtATime(r) /\ GetAuth(r)
  \/ \E r \in Reqs : GetFind(r)
  \/ \E r \in Reqs : GetSign(r)
  \/ \E r \in Reqs : Finish(r)

SpecSeq == Init /\ [][NextSeq]_vars

\* Two upload requests alone, one in each slot, in flight together and
\* interleaved in every way; the slots are not given a further request.
NextUploads ==
  \/ \E r \in Reqs : UploadAuth(r)
  \/ \E r \in Reqs : UploadFile(r)
  \/ \E r \in Reqs : UploadToBuffer(r)
  \/ \E r \in Reqs : UploadStore(r)
  \/ \E r \in Reqs : UploadSign(r)
  \/ \E r \in Reqs : UploadAnalyze(r)
  \/ \E r \in Reqs : UploadInsert(r)

SpecUploads == Init /\ [][NextUploads]_vars

\* The same two uploads when every call a handler awaits returns in the end
\* (it resolves or rejects): each step after the session check is taken if it
\* stays possible.
FairUploads ==
  /\ SpecUploads
  /\ \A r \in Reqs :
       /\ WF_vars(UploadFile(r))
       /\ WF_vars(UploadToBuffer(r))
       /\ WF_vars(UploadStore(r))
       /\ WF_vars(UploadSign(r))
       /\ WF_vars(UploadAnalyze(r))
       /\ WF_vars(UploadInsert(r))

(***************************************************************************)
(* HomeScreen: the client of POST /api/scans/upload.                       *)
(***************************************************************************)
\* uploadData.id || uploadData.scanId
ScanIdOf(uploadData) ==
  IF "id" \in DOMAIN uploadData /\ uploadData.id # 0 THEN uploadData.id
  ELSE IF "scanId" \in DOMAIN uploadData THEN uploadData.scanId
  ELSE 0

\* uploadData[f] || default, for a field that holds text: a missing field
\* (undefined) and the empty string give the default.
TextOr(uploadData, f, default) ==
  IF f \in DOMAIN uploadData /\ uploadData[f] # "" THEN uploadData[f] ELSE default

\* uploadData[f] || false
FlagOr(uploadData, f) == f \in DOMAIN uploadData /\ uploadData[f]

\* const result: ScanResult = { scanId: ..., species: ..., ... }
ScanResultOf(uploadData, selectedImage) ==
  [scanId |-> ScanIdOf(uploadData),
   species |-> TextOr(uploadData, "species", "Unknown"),
   commonName |-> TextOr(uploadData, "commonName", "Unknown"),
   isSafeToEat |-> FlagOr(uploadData, "isSafeToEat"),
   isSafeToTouch |-> FlagOr(uploadData, "isSafeToTouch"),
   confidence |-> TextOr(uploadData, "confidence", "low"),
   warnings |-> TextOr(uploadData, "warnings", ""),
   description |-> TextOr(uploadData, "description", "No description available"),
   imageUrl |-> IF "imageUrl" \in DOMAIN uploadData THEN uploadData.imageUrl
                ELSE selectedImage]

\* pickImage: the picker returns an asset (a cancelled picker changes nothing).
\* The button is rendered only while no image is selected.
PickImage(img) ==
  /\ home.selectedImage = NoImage
  /\ home' = [home EXCEPT !.selectedImage = img, !.scanResult = NoResult]
  /\ UNCHANGED <<db, storage, clock, req>>
  /\ UNCHANGED profile

\* takePhoto: the camera returns an asset.
TakePhoto(img) ==
  /\ home.selectedImage = NoImage
  /\ home' = [home EXCEPT !.selectedImage = img, !.scanResult = NoResult]
  /\ UNCHANGED <<db, storage, clock, req>>
  /\ UNCHANGED profile

\* resetScan; its button is rendered while an image is selected.
ResetScan ==
  /\ home.selectedImage # NoImage
  /\ home' = [home EXCEPT !.selectedImage = NoImage, !.scanResult = NoResult]
  /\ UNCHANGED <<db, storage, clock, req>>
  /\ UNCHANGED profile

\* analyzePlant up to its await fetch(...): the Analyze button is rendered
\* while an image is selected and is disabled while isAnalyzing.  The request
\* reaches the server, whose handler r sees the user's session or none.
AnalyzePlant(r) ==
  /\ home.selectedImage # NoImage
  /\ ~home.isAnalyzing
  /\ \E user \in Users \cup {NoSession} :
       IF user = NoSession
       THEN UNCHANGED vars
       ELSE /\ req[r].pc = "idle"
            /\ Len(db) + Cardinality(UploadsInFlight) < MaxScans
            /\ \E session \in {user, NoSession} :
                 req' = [req EXCEPT ![r] = UploadAuthed(req[r], session)]
            /\ UNCHANGED <<db, storage, clock>>
            /\ home' = [home EXCEPT !.isAnalyzing = TRUE, !.scanResult = NoResult,
                                    !.pending = [slot |-> r,
                                                 image |-> home.selectedImage,
                                                 user |-> user]]
  /\ UNCHANGED profile

\* analyzePlant after its await: the response has arrived.
AnalyzePlantResumes ==
  /\ home.pending # NoPending
  /\ req[home.pending.slot].pc = "done"
  /\ LET uploadResponse == req[home.pending.slot].response IN
     IF uploadResponse.status # 200
     THEN home' = [home EXCEPT !.isAnalyzing = FALSE, !.pending = NoPending]
     ELSE home' = [home EXCEPT
                     !.scanResult = ScanResultOf(uploadResponse.body,
                                                 home.pending.image),
                     !.isAnalyzing = FALSE, !.pending = NoPending]
  /\ req' = [req EXCEPT ![home.pending.slot] = Idle]
  /\ UNCHANGED <<db, storage, clock>>
  /\ UNCHANGED profile

\* A catch block that leaves isAnalyzing as it is.
AnalyzePlantFetchFails_noReset ==
  /\ home.pending # NoPending
  /\ req[home.pending.slot].pc = "done"
  /\ home' = [home EXCEPT !.pending = NoPending]
  /\ req' = [req EXCEPT ![home.pending.slot] = Idle]
  /\ UNCHANGED <<db, storage, clock>>
  /\ UNCHANGED profile

\* fetch rejects (the connection breaks): the catch block.  The rejection is
\* delivered when the handler on the server has finished, whatever it did.
AnalyzePlantFetchFails ==
  /\ home.pending # NoPending
  /\ req[home.pending.slot].pc = "done"
  /\ home' = [home EXCEPT !.isAnalyzing = FALSE, !.pending = NoPending]
  /\ req' = [req EXCEPT ![home.pending.slot] = Idle]
  /\ UNCHANGED <<db, storage, clock>>
  /\ UNCHANGED profile

NextHome ==
  \/ \E img \in Images : PickImage(img)
  \/ \E img \in Images : TakePhoto(img)
  \/ ResetScan
  \/ \E r \in Reqs : AnalyzePlant(r)
  \/ AnalyzePlantResumes
  \/ AnalyzePlantFetchFails
  \/ \E r \in Reqs : UploadFile(r)
  \/ \E r \in Reqs : UploadToBuffer(r)
  \/ \E r \in Reqs : UploadStore(r)
  \/ \E r \in Reqs : UploadSign(r)
  \/ \E r \in Reqs : UploadAnalyze(r)
  \/ \E r \in Reqs : UploadInsert(r)

SpecHome == Init /\ [][NextHome]_vars

(***************************************************************************)
(* ProfileScreen: the client of GET /api/scans.                            *)
(***************************************************************************)
\* (scan) => ({ id: scan.id, imageUrl: scan.imageUrl, ... })
HistoryItem(scan) ==
  [id |-> scan.id, imageUrl |-> scan.imageUrl, species |-> scan.species,
   commonName |-> scan.commonName, isSafeToEat |-> scan.isSafeToEat,
   isSafeToTouch |-> scan.isSafeToTouch, confidence |-> scan.confidence,
   createdAt |-> scan.createdAt]

\* (data.scans || data || []).map(...): the body is the array of rows.
HistoryOf(data) == [i \in 1..Len(data) |-> HistoryItem(data[i])]

\* A user signs in: useAuth().user becomes u, and the effect on [user] calls
\* loadScanHistory, which runs up to its await fetch(...).  The request
\* reaches the server, whose handler r sees the user's session or none.
SignIn(u, r) ==
  /\ profile.user = NoSession
  /\ ~profile.signingOut
  /\ OneAtATime(r)
  /\ req[r].pc = "idle"
  /\ \E session \in {u, NoSession} :
       req' = [req EXCEPT ![r] = ListAuthed(req[r], session)]
  /\ profile' = [profile EXCEPT !.user = u, !.isLoading = TRUE,
                                !.pending = @ \cup {r}]
  /\ UNCHANGED <<db, storage, clock, home>>

\* The Sign Out button (rendered while a user is signed in) is pressed: the
\* handler runs up to its await signOut().
SignOutPressed ==
  /\ profile.user # NoSession
  /\ ~profile.signingOut
  /\ profile' = [profile EXCEPT !.signingOut = TRUE]
  /\ UNCHANGED <<db, storage, clock, req, home>>

\* signOut() resolves: nobody is signed in, and the handler goes on with
\* setScanHistory([]).
SignOutResolves ==
  /\ profile.signingOut
  /\ profile' = [profile EXCEPT !.user = NoSession, !.scanHistory = <<>>,
                                !.signingOut = FALSE]
  /\ UNCHANGED <<db, storage, clock, req, home>>

\* loadScanHistory after its await: the response has arrived.
LoadScanHistoryResumes(r) ==
  /\ r \in profile.pending
  /\ req[r].pc = "done"
  /\ LET response == req[r].response IN
     IF response.status # 200
     THEN profile' = [profile EXCEPT !.isLoading = FALSE, !.pending = @ \ {r}]
     ELSE profile' = [profile EXCEPT !.scanHistory = HistoryOf(response.body),
                                     !.isLoading = FALSE, !.pending = @ \ {r}]
  /\ req' = [req EXCEPT ![r] = Idle]
  /\ UNCHANGED <<db, storage, clock, home>>

\* fetch rejects (the connection breaks): the catch block.  The rejection is
\* delivered when the handler on the server has finished.
LoadScanHistoryFetchFails(r) ==
  /\ r \in profile.pending
  /\ req[r].pc = "done"
  /\ profile' = [profile EXCEPT !.isLoading = FALSE, !.pending = @ \ {r}]
  /\ req' = [req EXCEPT ![r] = Idle]
  /\ UNCHANGED <<db, storage, clock, home>>

\* The uploads that fill the table come from elsewhere (the HomeScreen), one
\* request at a time; their replies go to their senders.
NextProfile ==
  \/ \E u \in Users, r \in Reqs : SignIn(u, r)
  \/ SignOutPressed
  \/ SignOutResolves
  \/ \E r \in Reqs : LoadScanHistoryResumes(r)
  \/ \E r \in Reqs : LoadScanHistoryFetchFails(r)
  \/ \E r \in Reqs : ListFind(r)
  \/ \E r \in Reqs : OneAtATime(r) /\ UploadAuth(r)
  \/ \E r \in Reqs : UploadFile(r)
  \/ \E r \in Reqs : UploadToBuffer(r)
  \/ \E r \in Reqs : UploadStore(r)
  \/ \E r \in Reqs : UploadSign(r)
  \/ \E r \in Reqs : UploadAnalyze(r)
  \/ \E r \in Reqs : UploadInsert(r)
  \/ \E r \in Reqs : r \notin profile.pending /\ Finish(r)

SpecProfile == Init /\ [][NextProfile]_vars

(***************************************************************************)
(* Vocabulary of the properties.                                           *)
(***************************************************************************)
\* The operations the request has awaited so far.
Ops(q) == {q.calls[i].op : i \in 1..Len(q.calls)}

\* The request has awaited op and the call resolved (ok) or rejected (~ok).
HasCall(q, op, ok) == \E i \in 1..Len(q.calls) : q.calls[i].op = op /\ q.calls[i].ok = ok

\* The calls of the upload route to storage, to the model and to the database.
UploadAdapterOps == {"upload", "getSignedUrl", "generateObject", "insert"}

\* Every call to storage, to the model or to the database of any route.
AdapterOps == UploadAdapterOps \cup {"findMany", "findFirst"}

\* The columns of a Scan row.
ScanFields ==
  {"id", "userId", "imageUrl", "imageKey", "createdAt"} \cup AnalysisFields

(***************************************************************************)
(* C1: an authenticated upload whose file part is longer than 10 MiB       *)
(* (10 MiB + 1 byte here) never gets past reading the part: it is answered *)
(* 413, and the request has called neither storage.upload, nor             *)
(* storage.getSignedUrl, nor the model, nor the database insert.           *)
(***************************************************************************)
C1_OversizeRejected ==
  \A r \in Reqs :
    LET q == req[r] IN
    (q.route = "upload" /\ q.session # NoSession /\ q.data.present
       /\ q.data.size > 10 * 1024 * 1024)
    => /\ q.pc \in {"toBuffer", "done"}
       /\ Ops(q) \cap UploadAdapterOps = {}
       /\ q.pc = "done" => q.response.status = 413

C1_Witness ==
  \E r \in Reqs :
    /\ req[r].route = "upload" /\ req[r].pc = "done"
    /\ req[r].data.size = 10 * 1024 * 1024 + 1
    /\ ~req[r].data.readError
    /\ req[r].response.status = 413

(***************************************************************************)
(* C3: in each of the three routes a request without a session stops at    *)
(* once: it is finished with the auth collaborator's reply, has awaited    *)
(* nothing (no file read, no storage, model or database call) and carries  *)
(* no Scan in its locals or in its reply.                                  *)
(***************************************************************************)
C3_NoSessionStops ==
  \A r \in Reqs :
    LET q == req[r] IN
    (q.route \in {"upload", "list", "get"} /\ q.session = NoSession)
    => /\ q.pc = "done"
       /\ q.calls = <<>>
       /\ q.data = NoFile
       /\ q.scan = NoScan
       /\ q.response = AuthReply

C3_Witness ==
  \E r \in Reqs :
    /\ req[r].route = "get" /\ req[r].session = NoSession /\ req[r].pc = "done"
    /\ req[r].response.status = 401
    /\ Len(db) > 0

(***************************************************************************)
(* C8: an authenticated upload with no file part is answered 400 and has   *)
(* called neither storage, nor the model, nor the database.                *)
(***************************************************************************)
C8_NoFileRejected ==
  \A r \in Reqs :
    LET q == req[r] IN
    (q.route = "upload" /\ q.session # NoSession /\ HasCall(q, "file", TRUE)
       /\ ~q.data.present)
    => /\ q.pc = "done"
       /\ q.response = ErrorReply(400, "No file provided")
       /\ Ops(q) \cap AdapterOps = {}

C8_Witness ==
  \E r \in Reqs :
    /\ req[r].route = "upload" /\ req[r].pc = "done" /\ req[r].session \in Users
    /\ req[r].data = NoFile /\ req[r].calls # <<>>
    /\ req[r].response.status = 400

(***************************************************************************)
(* The step in which request r gets the answer of its findFirst lookup.    *)
(***************************************************************************)
LookupAnswered(r) ==
  /\ req[r].pc = "findFirst"
  /\ req'[r].pc # "findFirst"
  /\ HasCall(req'[r], "findFirst", TRUE)

\* The table holds a row with this id.
RowExists(id) == \E i \in 1..Len(db) : db[i].id = id

\* The row with this id (there is at most one).
RowOf(id) == db[CHOOSE i \in 1..Len(db) : db[i].id = id]

(***************************************************************************)
(* C2: when the lookup of GET /api/scans/:id finds a row whose owner is    *)
(* not the session's user, the request ends in that step with 403, its     *)
(* body holds an error message and no column of the Scan, and the request  *)
(* has derived no signed URL.                                              *)
(***************************************************************************)
C2_ForeignScanForbidden ==
  [][\A r \in Reqs :
       (LookupAnswered(r) /\ RowExists(req'[r].id)
          /\ RowOf(req'[r].id).userId # req[r].session)
       => /\ req'[r].pc = "done"
          /\ req'[r].response.status = 403
          /\ DOMAIN req'[r].response.body = {"error"}
          /\ req'[r].response.body.error = "Unauthorized"
          /\ DOMAIN req'[r].response.body \cap ScanFields = {}
          /\ "getSignedUrl" \notin Ops(req'[r])]_vars

C2_Witness ==
  \E r \in Reqs :
    /\ req[r].route = "get" /\ req[r].pc = "done"
    /\ req[r].session \in Users
    /\ RowExists(req[r].id)
    /\ RowOf(req[r].id).userId \in Users \ {req[r].session}
    /\ req[r].response.status = 403

(***************************************************************************)
(* C7: when the lookup of GET /api/scans/:id is answered and no row has    *)
(* the id, the request ends in that step with 404, whoever the caller is:  *)
(* absence is never answered 403, and no signed URL is derived.            *)
(***************************************************************************)
C7_AbsentScanNotFound ==
  [][\A r \in Reqs :
       (LookupAnswered(r) /\ ~RowExists(req'[r].id))
       => /\ req'[r].pc = "done"
          /\ req'[r].response = ErrorReply(404, "Scan not found")
          /\ "getSignedUrl" \notin Ops(req'[r])]_vars

C7_Witness ==
  \E r \in Reqs :
    /\ req[r].route = "get" /\ req[r].pc = "done"
    /\ req[r].session \in Users
    /\ Len(db) > 0
    /\ ~RowExists(req[r].id)
    /\ req[r].response.status = 404

(***************************************************************************)
(* C4: an upload whose storage write succeeded and whose model call then   *)
(* failed inserts no row, ends with the model call's failure as its        *)
(* outcome, and leaves the object it wrote in storage.                     *)
(***************************************************************************)
C4_ModelFailureOrphans ==
  \A r \in Reqs :
    LET q == req[r] IN
    (q.route = "upload" /\ HasCall(q, "upload", TRUE) /\ HasCall(q, "generateObject", FALSE))
    => /\ q.pc = "done"
       /\ "insert" \notin Ops(q)
       /\ q.response.status = 500
       /\ q.response.body.thrown \in {"ModelCallError", "NoObjectGeneratedError"}
       /\ q.uploadedKey \in DOMAIN storage

C4_Witness ==
  \E r \in Reqs :
    /\ req[r].route = "upload" /\ req[r].pc = "done"
    /\ HasCall(req[r], "upload", TRUE) /\ HasCall(req[r], "generateObject", FALSE)
    /\ req[r].uploadedKey \in DOMAIN storage
    /\ \A i \in 1..Len(db) : db[i].imageKey # req[r].uploadedKey

(***************************************************************************)
(* C10: when an adapter call of an upload fails (storage upload, signed    *)
(* URL, model call or insert) the request ends with that very failure, the *)
(* failed call is the last call it made, every operation was attempted at  *)
(* most once, and what earlier steps wrote is still there.                 *)
(***************************************************************************)
C10_FailurePropagates ==
  \A r \in Reqs :
    LET q == req[r] IN
    q.route = "upload" =>
      /\ \A i, j \in 1..Len(q.calls) : i # j => q.calls[i].op # q.calls[j].op
      /\ HasCall(q, "upload", TRUE) => q.uploadedKey \in DOMAIN storage
      /\ \A i \in 1..Len(q.calls) :
           (q.calls[i].op \in UploadAdapterOps /\ ~q.calls[i].ok)
           => /\ i = Len(q.calls)
              /\ q.pc = "done"
              /\ q.response = ThrownReply(q.calls[i].ret)

C10_Witness ==
  \E r \in Reqs :
    /\ req[r].route = "upload" /\ req[r].pc = "done"
    /\ Len(req[r].calls) = 6
    /\ HasCall(req[r], "insert", FALSE)
    /\ req[r].response.status = 500
    /\ req[r].uploadedKey \in DOMAIN storage

(***************************************************************************)
(* C5 (as claimed): every record a read returns, from GET /api/scans as    *)
(* from GET /api/scans/:id, carries as imageUrl a URL that this very       *)
(* request obtained from getSignedUrl for the record's imageKey.           *)
(***************************************************************************)
\* The records a finished read hands to the caller.
Returned(q) ==
  IF q.route = "list"
  THEN {q.response.body[i] : i \in 1..Len(q.response.body)}
  ELSE {q.response.body}

\* The request signed rec's key itself and returns that URL.
FreshlySigned(q, rec) ==
  \E i \in 1..Len(q.calls) :
    /\ q.calls[i].op = "getSignedUrl" /\ q.calls[i].ok
    /\ q.calls[i].arg = rec.imageKey
    /\ q.calls[i].ret = rec.imageUrl

C5_EveryReadSignsAfresh ==
  \A r \in Reqs :
    LET q == req[r] IN
    (q.route \in {"list", "get"} /\ q.pc = "done" /\ q.response.status = 200)
    => \A rec \in Returned(q) : FreshlySigned(q, rec)

(***************************************************************************)
(* C6: the answer of GET /api/scans is exactly the rows of the table whose *)
(* owner is the session's user at the moment of the query, each once, none *)
(* of another user, none left out, newest (largest createdAt) first.       *)
(***************************************************************************)
ListAnswered(r) ==
  /\ req[r].pc = "findMany"
  /\ req'[r].pc = "done"
  /\ req'[r].response.status = 200

C6_ListIsOwnersNewestFirst ==
  [][\A r \in Reqs :
       ListAnswered(r) =>
         LET body == req'[r].response.body
             mine == {i \in 1..Len(db) : db[i].userId = req[r].session} IN
         /\ Len(body) = Cardinality(mine)
         /\ {body[i] : i \in 1..Len(body)} = {db[i] : i \in mine}
         /\ \A i, j \in 1..Len(body) : i < j => body[i].createdAt >= body[j].createdAt]_vars

C6_Witness ==
  \E r \in Reqs :
    /\ req[r].route = "list" /\ req[r].pc = "done" /\ req[r].response.status = 200
    /\ Len(req[r].response.body) = 2
    /\ req[r].response.body[1].createdAt > req[r].response.body[2].createdAt
    /\ req[r].response.body[1] = db[2]

(***************************************************************************)
(* C9: no step of any route changes or removes a row of the table: every   *)
(* row stays as it was inserted (its imageUrl too), and the table changes  *)
(* only by an upload's insert appending one row.                           *)
(***************************************************************************)
C9_RowsImmutable ==
  [][/\ Len(db') >= Len(db)
     /\ \A i \in 1..Len(db) : db'[i] = db[i]
     /\ db' # db =>
          /\ Len(db') = Len(db) + 1
          /\ \E r \in Reqs :
               /\ req[r].route = "upload" /\ req[r].pc = "insert"
               /\ HasCall(req'[r], "insert", TRUE)]_vars

C9_Witness ==
  \E r \in Reqs :
    /\ req[r].route = "get" /\ req[r].pc = "done" /\ req[r].response.status = 200
    /\ RowExists(req[r].id)
    /\ req[r].response.body.imageUrl # RowOf(req[r].id).imageUrl
    /\ RowOf(req[r].id).imageUrl = req[r].scan.imageUrl

(***************************************************************************)
(* C11: every upload answered 200 carries an analysis with exactly the     *)
(* seven fields of analysisSchema: a confidence that is high, medium or    *)
(* low, isSafeToEat and isSafeToTouch booleans, the four others strings.   *)
(* An output of the model that does not parse against the schema reaches   *)
(* neither a reply nor a row: the analysis columns of every row satisfy    *)
(* the same conditions.                                                    *)
(***************************************************************************)
Texts == {o[f] : o \in RawOutputs, f \in {"species", "commonName", "warnings", "description"}}

WellFormedAnalysis(a) ==
  /\ a.confidence \in {"high", "medium", "low"}
  /\ a.isSafeToEat \in BOOLEAN
  /\ a.isSafeToTouch \in BOOLEAN
  /\ \A f \in {"species", "commonName", "warnings", "description"} : a[f] \in Texts

C11_AnalysisConforms ==
  /\ \A r \in Reqs :
       LET q == req[r] IN
       (q.route = "upload" /\ q.pc = "done" /\ q.response.status = 200)
       => /\ DOMAIN q.response.body.analysis =
               {"species", "commonName", "isSafeToEat", "isSafeToTouch",
                "confidence", "warnings", "description"}
          /\ WellFormedAnalysis(q.response.body.analysis)
  /\ \A i \in 1..Len(db) : WellFormedAnalysis(db[i])

C11_Witness ==
  \E r \in Reqs :
    /\ req[r].route = "upload" /\ req[r].pc = "done"
    /\ req[r].response = ThrownReply("NoObjectGeneratedError")
    /\ Len(db) = 1
    /\ db[1].confidence = "high"

(***************************************************************************)
(* C12: an upload request calls the insert at most once, and only after    *)
(* its own generateObject call resolved; its insert has resolved exactly   *)
(* when the request is answered 200; and the table grows in a step by one  *)
(* row for each insert that resolves in that step, so a request that ends  *)
(* otherwise (400, 413, a thrown failure, no session) has added no row.    *)
(***************************************************************************)
InsertCalls(q) == {i \in 1..Len(q.calls) : q.calls[i].op = "insert"}

InsertResolves(r) ==
  /\ req[r].route = "upload"
  /\ ~HasCall(req[r], "insert", TRUE)
  /\ HasCall(req'[r], "insert", TRUE)

C12_OneRowIffSuccess ==
  [][/\ \A r \in Reqs :
          LET q == req'[r] IN
          q.route = "upload" =>
            /\ Cardinality(InsertCalls(q)) <= 1
            /\ HasCall(q, "insert", TRUE)
                 <=> (q.pc = "done" /\ q.response.status = 200)
            /\ \A i \in InsertCalls(q) :
                  \E j \in 1..(i - 1) :
                     q.calls[j].op = "generateObject" /\ q.calls[j].ok
     /\ Len(db') - Len(db) = Cardinality({r \in Reqs : InsertResolves(r)})]_vars

C12_Witness ==
  \E r \in Reqs :
    /\ req[r].route = "upload" /\ req[r].pc = "done"
    /\ req[r].response.status = 200
    /\ req[r].response.body.scanId = 2
    /\ Len(db) = 2

(***************************************************************************)
(* C13: the calls an upload request has awaited are, in this order, a      *)
(* prefix of: request.file, toBuffer, storage.upload, storage.getSignedUrl,*)
(* generateObject, db.insert.  Each call is issued only when the one       *)
(* before it has resolved (a rejected call is the last one), and the       *)
(* request waits on at most one call at a time: the one its position names.*)
(***************************************************************************)
UploadOrder ==
  <<"file", "toBuffer", "upload", "getSignedUrl", "generateObject", "insert">>

\* The call a request in position pc of the upload route is waiting on.
AwaitedAt(pc) ==
  CASE pc = "file" -> 1
    [] pc = "toBuffer" -> 2
    [] pc = "upload" -> 3
    [] pc = "sign" -> 4
    [] pc = "analyze" -> 5
    [] pc = "insert" -> 6
    [] OTHER -> 0

C13_FixedOrder ==
  \A r \in Reqs :
    LET q == req[r] IN
    q.route = "upload" =>
      /\ Len(q.calls) <= Len(UploadOrder)
      /\ \A i \in 1..Len(q.calls) :
            /\ q.calls[i].op = UploadOrder[i]
            /\ i < Len(q.calls) => q.calls[i].ok
      /\ q.pc \notin {"idle", "done"} =>
            /\ AwaitedAt(q.pc) = Len(q.calls) + 1
            /\ \A i \in 1..Len(q.calls) : q.calls[i].ok

C13_Witness ==
  \E r \in Reqs :
    /\ req[r].route = "upload" /\ req[r].pc = "done"
    /\ Len(req[r].calls) = 6
    /\ req[r].calls[3].op = "upload" /\ req[r].calls[6].op = "insert"
    /\ req[r].calls[6].ok

(***************************************************************************)
(* C14: in an upload answered 200, scanId is the id the request's insert   *)
(* returned and a row with that id exists; the seven analysis columns of   *)
(* that row equal the fields of the reply's analysis; the row's imageKey   *)
(* is the key the request's storage.upload returned; and the reply's       *)
(* imageUrl is what the request's getSignedUrl returned for that key.      *)
(***************************************************************************)
\* What the request's call of op returned (the call has resolved).
ReturnOf(q, op) ==
  q.calls[CHOOSE i \in 1..Len(q.calls) : q.calls[i].op = op /\ q.calls[i].ok].ret

\* What the request's call of op was given.
ArgOf(q, op) ==
  q.calls[CHOOSE i \in 1..Len(q.calls) : q.calls[i].op = op /\ q.calls[i].ok].arg

C14_ReplyMatchesRow ==
  \A r \in Reqs :
    LET q == req[r] IN
    (q.route = "upload" /\ q.pc = "done" /\ q.response.status = 200)
    => /\ HasCall(q, "insert", TRUE)
       /\ q.response.body.scanId = ReturnOf(q, "insert")
       /\ RowExists(q.response.body.scanId)
       /\ LET row == RowOf(q.response.body.scanId) IN
          /\ \A f \in {"species", "commonName", "isSafeToEat", "isSafeToTouch",
                       "confidence", "warnings", "description"} :
                row[f] = q.response.body.analysis[f]
          /\ row.imageKey = ReturnOf(q, "upload")
          /\ ArgOf(q, "getSignedUrl") = ReturnOf(q, "upload")
          /\ q.response.body.imageUrl = ReturnOf(q, "getSignedUrl")
          /\ q.response.body.imageUrl.key = row.imageKey

C14_Witness ==
  \E r \in Reqs :
    /\ req[r].route = "upload" /\ req[r].pc = "done"
    /\ req[r].response.status = 200
    /\ req[r].response.body.analysis.isSafeToEat
    /\ RowOf(req[r].response.body.scanId).isSafeToEat
    /\ ~RowOf(req[r].response.body.scanId).isSafeToTouch

(***************************************************************************)
(* C19: an upload that has read its file part is answered 413 exactly when *)
(* the part is longer than 10 MiB; a part of 10 MiB or less whose read     *)
(* fails for another reason is not answered 413.                           *)
(***************************************************************************)
C19_PayloadTooLargeIffOversize ==
  \A r \in Reqs :
    LET q == req[r] IN
    (q.route = "upload" /\ q.pc = "done" /\ "toBuffer" \in Ops(q))
    => (q.response.status = 413 <=> q.data.size > 10 * 1024 * 1024)

(***************************************************************************)
(* C15: with two upload requests in flight and interleaved in any way, the *)
(* row a request's insert adds is owned by that request's session user,    *)
(* its imageKey and imageUrl are what that request's own storage calls     *)
(* returned, and its seven analysis columns are what that request's own    *)
(* generateObject returned; every row has one owner, who is a user.        *)
(***************************************************************************)
C15_RowFromOwnRequest ==
  [][/\ \A r \in Reqs :
          InsertResolves(r) =>
            LET q == req[r]
                row == db'[Len(db')] IN
            /\ Len(db') = Len(db) + 1
            /\ row.id = ReturnOf(req'[r], "insert")
            /\ row.userId = q.session
            /\ row.imageKey = ReturnOf(q, "upload")
            /\ row.imageUrl = ReturnOf(q, "getSignedUrl")
            /\ \A f \in AnalysisFields : row[f] = ReturnOf(q, "generateObject")[f]
     /\ \A i \in 1..Len(db') : db'[i].userId \in Users]_vars

C15_Witness ==
  /\ \A r \in Reqs : req[r].pc = "done" /\ req[r].response.status = 200
  /\ Len(db) = 2
  /\ db[1].userId # db[2].userId
  /\ db[1].species # db[2].species
  /\ db[1].imageKey[3] > db[2].imageKey[3]

(***************************************************************************)
(* C18: two upload requests never store under the same key, and no two     *)
(* rows of the table have the same imageKey.                               *)
(***************************************************************************)
C18_KeysNeverShared ==
  /\ \A r, o \in Reqs :
       (r # o /\ HasCall(req[r], "upload", TRUE) /\ HasCall(req[o], "upload", TRUE))
       => ArgOf(req[r], "upload") # ArgOf(req[o], "upload")
  /\ \A i, j \in 1..Len(db) : i # j => db[i].imageKey # db[j].imageKey

(***************************************************************************)
(* C16: when every call it awaits returns, an upload request that has      *)
(* started is answered in the end, with one reply that is never changed:   *)
(* 200, 400, 413 or the failure an adapter call threw (a request without a *)
(* session has the auth collaborator's reply).  The handler has no timer:  *)
(* a request waiting on a call changes only by that call returning, so     *)
(* while the call does not return it has no reply.                         *)
(***************************************************************************)
\* What the adapter calls of the upload route reject with.
AdapterFailures ==
  {"StorageUploadError", "SignedUrlError", "ModelCallError",
   "NoObjectGeneratedError", "DbInsertError"}

\* The replies of an upload that is not answered 200.
UploadOutcomes ==
  {ErrorReply(400, "No file provided"), ErrorReply(413, "File too large")}
    \cup {ThrownReply(e) : e \in AdapterFailures}

\* Request r is waiting on an awaited call of the upload handler.
Waiting(r) ==
  req[r].route = "upload" /\ req[r].pc \notin {"idle", "done"}

\* The call request r was waiting on returns in this step.
AwaitedCallReturns(r) ==
  /\ Len(req'[r].calls) = Len(req[r].calls) + 1
  /\ req'[r].calls[Len(req'[r].calls)].op = UploadOrder[AwaitedAt(req[r].pc)]
  /\ SubSeq(req'[r].calls, 1, Len(req[r].calls)) = req[r].calls

C16_AnsweredOnceNoTimeout ==
  /\ \A r \in Reqs : Waiting(r) ~> (req[r].pc = "done")
  /\ [][\A r \in Reqs :
          /\ (Waiting(r) /\ req'[r] # req[r]) => AwaitedCallReturns(r)
          /\ (Waiting(r) /\ req'[r] = req[r]) => req'[r].response = NoResponse
          /\ (req[r].route = "upload" /\ req[r].pc = "done")
               => req'[r].response = req[r].response
          /\ (req'[r].route = "upload" /\ req'[r].pc = "done")
               => IF req'[r].session = NoSession
                  THEN req'[r].response = AuthReply
                  ELSE \/ req'[r].response.status = 200
                       \/ req'[r].response \in UploadOutcomes]_vars

C16_Witness ==
  /\ \A r \in Reqs : req[r].route = "upload" /\ req[r].pc = "done"
  /\ \E r \in Reqs : req[r].response.status = 200
  /\ \E r \in Reqs : req[r].response = ThrownReply("ModelCallError")

(***************************************************************************)
(* The step in which analyzePlant gets a 200 response and sets scanResult. *)
(***************************************************************************)
ResultDisplayed ==
  /\ home.pending # NoPending
  /\ home'.pending = NoPending
  /\ home'.scanResult # NoResult

(***************************************************************************)
(* C17: when the HomeScreen gets a 200 response to its upload, the seven   *)
(* analysis fields of the result it displays are those of the analysis     *)
(* object in the body of that response.                                    *)
(***************************************************************************)
C17_DisplaysReturnedAnalysis ==
  [][ResultDisplayed =>
       \A f \in AnalysisFields :
          home'.scanResult[f] = req[home.pending.slot].response.body.analysis[f]]_vars

(***************************************************************************)
(* C20: a result is put on the HomeScreen only while the selected image is *)
(* the one the request was sent for, and it is taken off whenever the      *)
(* selected image changes: a response that arrives after a reset (or after *)
(* another image was selected) is not displayed.                           *)
(***************************************************************************)
C20_ResultIsOfSelectedImage ==
  [][/\ ResultDisplayed => home.selectedImage = home.pending.image
     /\ home'.selectedImage # home.selectedImage => home'.scanResult = NoResult]_vars

(***************************************************************************)
(* C21: while nobody is signed in on the ProfileScreen and no sign-out is  *)
(* under way, the scan history of the screen is empty: so it is after a    *)
(* sign-out has completed and until the next sign-in, also when a load     *)
(* that started before the sign-out gets its response after it.            *)
(***************************************************************************)
C21_HistoryEmptyWhenSignedOut ==
  (profile.user = NoSession /\ ~profile.signingOut) => profile.scanHistory = <<>>

(***************************************************************************)
(* C22: on the HomeScreen isAnalyzing is true exactly while an upload      *)
(* request sent by analyzePlant is in flight (from the call of fetch until *)
(* analyzePlant goes on after it, with a response or with a rejection); at *)
(* most one such request is in flight; and every request in flight was     *)
(* sent with an image selected and a user signed in.                       *)
(***************************************************************************)
\* The upload requests sent by the screen and not yet settled on its side.
InFlight == {r \in Reqs : req[r].route = "upload"}

C22_AnalyzingIffInFlight ==
  /\ home.isAnalyzing <=> InFlight # {}
  /\ Cardinality(InFlight) <= 1
  /\ InFlight = {} => home.pending = NoPending
  /\ InFlight # {} =>
       /\ home.pending.slot \in InFlight
       /\ home.pending.image \in Images
       /\ home.pending.user \in Users

C22_Witness ==
  /\ home.isAnalyzing
  /\ home.selectedImage = NoImage
  /\ Len(db) = 1
  /\ \E r \in InFlight : req[r].pc = "analyze"

====
